---- MODULE Spec2Model ----
(***************************************************************************)
(* A model of PyBB (src/PyBB.py): the entities Forum, User and Topic, the  *)
(* attribute resolution of _ForumObjectBase.__getattr__ with its "smart"   *)
(* conversion of time values, and the requests each operation issues.      *)
(*                                                                         *)
(* Strings are sequences of one-character tokens, so that str(), isdigit,  *)
(* len, int() and strptime are computed on the characters.  Two tokens     *)
(* stand for non-ASCII characters: "sup2" is U+00B2 (SUPERSCRIPT TWO, a    *)
(* digit that is no decimal digit) and "eacute" is U+00E9.                 *)
(* Numbers of 13 digits do not fit the integers of the model checker: an   *)
(* integer read from a digit string is kept as its digit sequence.         *)
(***************************************************************************)
EXTENDS Integers, Sequences, FiniteSets, TLC

VARIABLES build,   \* the interpreter and optional dependency the library runs on
          heap,    \* the entities constructed so far, in construction order
          net,     \* the HTTP requests issued so far, in order
          last     \* the call just made: its outcome, its requests, the file it wrote

vars == <<build, heap, net, last>>

----------------------------------------------------------------------------
(* Values: JSON values as json.loads yields them, and the Python objects   *)
(* attribute access can return.                                            *)

\* A value: its type t, and of the rest what the type uses: characters or
\* tokens s, numbers n, named members m, elements q.
NoMembers == <<>>
Value(t, s, n, m, q) == [t |-> t, s |-> s, n |-> n, m |-> m, q |-> q]

StrV(cs) == Value("str", cs, <<>>, NoMembers, <<>>)
IntV(ds) == Value("int", ds, <<>>, NoMembers, <<>>)       \* its decimal digits
BoolV(b) == Value("bool", IF b THEN <<"T", "r", "u", "e">> ELSE <<"F", "a", "l", "s", "e">>,
                  <<>>, NoMembers, <<>>)
None     == Value("null", <<>>, <<>>, NoMembers, <<>>)
ObjV(f)  == Value("obj", <<>>, <<>>, f, <<>>)              \* a JSON object, a dict
ArrV(q)  == Value("arr", <<>>, <<>>, NoMembers, q)         \* a JSON array
ListV(q) == Value("list", <<>>, <<>>, NoMembers, q)        \* a list the library built
RefV(i)  == Value("ref", <<>>, <<i>>, NoMembers, <<>>)     \* the entity heap[i]

\* A datetime.  fromtimestamp yields the local time of an instant, and the
\* time zone is the host's: such a value is kept as its instant, the seconds
\* as ten digits and the microseconds.  strptime yields the fields it read:
\* microseconds, then year to second.
DatetimeAt(sec, usec)    == Value("datetime", sec, <<usec>>, NoMembers, <<>>)
DatetimeOf(ymdhms, usec) == Value("datetime", <<>>, <<usec>> \o ymdhms, NoMembers, <<>>)

\* What a call does: it returns a value or raises an exception.
\* arg is what the exception names, hops the aliases followed on the way.
Return(v)   == [ok |-> TRUE, val |-> v, err |-> "", arg |-> <<>>, hops |-> 0]
Raise(e, a) == [ok |-> FALSE, val |-> None, err |-> e, arg |-> a, hops |-> 0]

----------------------------------------------------------------------------
(* Characters.                                                             *)

DecimalDigits == <<"0", "1", "2", "3", "4", "5", "6", "7", "8", "9">>
IsDecimal(c)  == \E i \in 1..10 : DecimalDigits[i] = c
DigitValue(c) == (CHOOSE i \in 1..10 : DecimalDigits[i] = c) - 1
NonAscii      == {"sup2", "eacute"}
IsAscii(c)    == c \notin NonAscii
AllDecimal(s) == \A i \in 1..Len(s) : IsDecimal(s[i])

RECURSIVE Number(_)
\* The value of a short run of decimal digits.
Number(s) == IF s = <<>> THEN 0
             ELSE 10 * Number(SubSeq(s, 1, Len(s) - 1)) + DigitValue(s[Len(s)])

----------------------------------------------------------------------------
(* str(out), str.isdigit and int(out), as line 79 and 80 use them.         *)

\* str(out).  A JSON string is a unicode object on Python 2, where str()
\* encodes it as ASCII and raises on any other character; on Python 3 it is
\* the string itself.  The repr of a container starts with a bracket, which
\* is all that isdigit reads of it.
StrOf(b, x) ==
    CASE x.t = "str"  -> IF b.py = 2 /\ \E i \in 1..Len(x.s) : ~IsAscii(x.s[i])
                         THEN Raise("UnicodeEncodeError", <<>>)
                         ELSE Return(StrV(x.s))
      [] x.t = "int"  -> Return(StrV(x.s))
      [] x.t = "bool" -> Return(StrV(x.s))
      [] x.t = "null" -> Return(StrV(<<"N", "o", "n", "e">>))
      [] x.t = "obj"  -> Return(StrV(<<"{", "}">>))
      [] x.t = "arr"  -> Return(StrV(<<"[", "]">>))
      [] OTHER        -> Return(StrV(<<"<", ">">>))

\* str.isdigit: every character is a digit and there is at least one.  On
\* Python 3 the digits are Unicode's, superscripts included; the byte string
\* of Python 2 has the ASCII digits only.
IsDigit(b, s) ==
    /\ Len(s) > 0
    /\ \A i \in 1..Len(s) : IsDecimal(s[i]) \/ (b.py = 3 /\ s[i] = "sup2")

\* int(out): out is the raw value, not str(out).  A string must be decimal
\* digits; an int is itself.
IntOf(x) ==
    IF x.t = "int" \/ (x.t = "str" /\ Len(x.s) > 0 /\ AllDecimal(x.s))
    THEN Return(IntV(x.s))
    ELSE Raise("ValueError", <<>>)
----------------------------------------------------------------------------
(* Line 80: datetime.datetime.fromtimestamp(int(out) / 1000).              *)

TimestampLen == 13
MillisDigits == 3

RECURSIVE DigitsLess(_, _)
\* a < b, for digit sequences of one length.
DigitsLess(a, b) ==
    IF a = <<>> THEN FALSE
    ELSE IF Head(a) # Head(b) THEN DigitValue(Head(a)) < DigitValue(Head(b))
    ELSE DigitsLess(Tail(a), Tail(b))

\* k * m / q rounded to the nearest integer, a tie to the even one; the
\* product is split at q to stay within the integers.
RoundHalfEven(k, m, q) ==
    LET whole == (k \div q) * m + ((k % q) * m) \div q
        rest  == ((k % q) * m) % q
    IN  IF 2 * rest < q THEN whole
        ELSE IF 2 * rest > q THEN whole + 1
        ELSE IF whole % 2 = 0 THEN whole ELSE whole + 1

\* 2^33, in digits: from there to 10^10 a double holds 19 fraction bits.
TwoTo33 == <<"8", "5", "8", "9", "9", "3", "4", "5", "9", "2">>

\* The microseconds fromtimestamp reads from the double n / 1000, n having
\* whole seconds sec and ms milliseconds.  Below 2^33 seconds the double is
\* within half a microsecond of the quotient and rounds to ms * 1000.  From
\* 2^33 on the quotient is first rounded to a multiple of 2^-19, which is
\* k / 2^19 with k = round(ms * 2^19 / 1000), and then to a microsecond:
\* round(k * 10^6 / 2^19).  Both fractions are reduced to fit the integers.
FloatMicros(sec, ms) ==
    IF DigitsLess(sec, TwoTo33) THEN ms * 1000
    ELSE RoundHalfEven(RoundHalfEven(ms, 65536, 125), 15625, 8192)

\* int(out) / 1000 of the digits n: Python 2 divides integers and drops the
\* milliseconds, Python 3 divides to a double.
FromTimestamp(b, n) ==
    LET sec == SubSeq(n, 1, Len(n) - MillisDigits)
        ms  == Number(SubSeq(n, Len(n) - MillisDigits + 1, Len(n)))
    IN  IF b.py = 2 THEN DatetimeAt(sec, 0)
        ELSE DatetimeAt(sec, FloatMicros(sec, ms))

----------------------------------------------------------------------------
(* Line 84: datetime.datetime.strptime(out, "%Y-%m-%dT%H:%M:%S.%fZ").      *)
(* Each directive is a run of digits closed by a literal that is no digit, *)
(* so a match reads each run whole; literals match in either case.         *)

RECURSIVE DigitRun(_, _)
DigitRun(s, i) == IF i <= Len(s) /\ IsDecimal(s[i]) THEN 1 + DigitRun(s, i + 1) ELSE 0

RECURSIVE Pow10(_)
Pow10(n) == IF n = 0 THEN 1 ELSE 10 * Pow10(n - 1)

\* The directives in order: least and greatest width, least and greatest
\* value, and the literal that follows.
IsoFormat == <<
    [lo |-> 4, hi |-> 4, min |-> 0, max |-> 9999, lit |-> {"-"}],
    [lo |-> 1, hi |-> 2, min |-> 1, max |-> 12, lit |-> {"-"}],
    [lo |-> 1, hi |-> 2, min |-> 1, max |-> 31, lit |-> {"T", "t"}],
    [lo |-> 1, hi |-> 2, min |-> 0, max |-> 23, lit |-> {":"}],
    [lo |-> 1, hi |-> 2, min |-> 0, max |-> 59, lit |-> {":"}],
    [lo |-> 1, hi |-> 2, min |-> 0, max |-> 61, lit |-> {"."}],
    [lo |-> 1, hi |-> 6, min |-> 0, max |-> 999999, lit |-> {"Z", "z"}] >>

IsLeap(y) == y % 4 = 0 /\ (y % 100 # 0 \/ y % 400 = 0)
DaysIn(y, m) == IF m = 2 THEN (IF IsLeap(y) THEN 29 ELSE 28)
                ELSE IF m \in {4, 6, 9, 11} THEN 30 ELSE 31

RECURSIVE Match(_, _, _, _)
\* The fields read from position i on by directives n.., after those in acc;
\* <<>> when the string does not match.
Match(s, i, n, acc) ==
    IF n > Len(IsoFormat) THEN (IF i = Len(s) + 1 THEN acc ELSE <<>>)
    ELSE
      LET d     == IsoFormat[n]
          space == n = 3 /\ i <= Len(s) /\ s[i] = " "     \* %d also reads " 1"
          j     == IF space THEN i + 1 ELSE i
          w     == DigitRun(s, j)
          v     == Number(SubSeq(s, j, j + w - 1))
          k     == j + w
      IN  IF /\ d.lo <= w /\ w <= d.hi
             /\ d.min <= v /\ v <= d.max
             /\ (space => w = 1)
             /\ k <= Len(s) /\ s[k] \in d.lit
          THEN Match(s, k + 1, n + 1,
                     Append(acc, IF n = Len(IsoFormat) THEN v * Pow10(d.hi - w) ELSE v))
          ELSE <<>>

\* strptime: TypeError unless out is a string, ValueError unless it matches
\* and names a date and time that exist.
Strptime(x) ==
    IF x.t # "str" THEN Raise("TypeError", <<>>)
    ELSE LET f == Match(x.s, 1, 1, <<>>)
         IN  IF f # <<>> /\ f[1] >= 1 /\ f[3] <= DaysIn(f[1], f[2]) /\ f[6] <= 59
             THEN Return(DatetimeOf(SubSeq(f, 1, 6), f[7]))
             ELSE Raise("ValueError", <<>>)

----------------------------------------------------------------------------
(* Lines 77-89: the conversion __getattr__ applies to a stored value.      *)

Coerce(b, out) ==
    LET s == StrOf(b, out)
    IN  IF ~s.ok THEN s                                      \* str(out) raises
        ELSE IF IsDigit(b, s.val.s) /\ Len(s.val.s) = TimestampLen
        THEN LET n == IntOf(out)
             IN  IF n.ok THEN Return(FromTimestamp(b, n.val.s)) ELSE n
        ELSE LET d == Strptime(out)
             IN  IF d.ok THEN d ELSE Return(out)
----------------------------------------------------------------------------
(* Entities.  An entity is an object of class Forum, User or Topic: _name, *)
(* data, aliases (lines 57-59) and the attributes its _setup assigns.      *)
(* A Topic's data is the very dict of its forum's record (line 168), so it *)
(* is kept as a reference to that record: forum and idx, 0 when the entity *)
(* owns its data.                                                          *)

Empty == <<>>

MergeFirstWins(a, b) ==
    [k \in DOMAIN a \cup DOMAIN b |-> IF k \in DOMAIN a THEN a[k] ELSE b[k]]

\* dict(list(a.items()) + list(b.items())): a later pair replaces an earlier.
Merge(a, b) == [k \in DOMAIN a \cup DOMAIN b |-> IF k \in DOMAIN b THEN b[k] ELSE a[k]]

OwnData(map)      == [forum |-> 0, idx |-> 0, map |-> map]
SharedData(f, i)  == [forum |-> f, idx |-> i, map |-> Empty]

DataOf(h, e) ==
    IF e.data.forum = 0 THEN e.data.map
    ELSE h[e.data.forum].data.map["topics"].q[e.data.idx].m

UrlV(u)      == Value("url", u, <<>>, NoMembers, <<>>)
ResponseV(u) == Value("response", u, <<>>, NoMembers, <<>>)
MethodV(m)   == Value("method", <<m>>, <<>>, NoMembers, <<>>)
ImageV(u)    == Value("image", u, <<>>, NoMembers, <<>>)
DictV(f)     == Value("dict", <<>>, <<>>, [k \in DOMAIN f |-> StrV(<<f[k]>>)], <<>>)

\* urljoin(base, rel) for a base that ends in "/" and a relative reference:
\* the reference is appended.
UrlJoin(base, rel) == base \o rel

\* vars(self): what normal attribute lookup finds on the instance.
InstanceDict(h, e) ==
    Merge(("_name" :> e.name) @@ ("data" :> ObjV(DataOf(h, e)))
              @@ ("aliases" :> DictV(e.aliases)),
          e.attrs)

\* The properties and methods of the entity's class and of its base class.
Properties(cls) == CASE cls = "Forum" -> {"topics"}
                     [] cls = "User"  -> {"image"}
                     [] OTHER         -> {}
Methods(cls) == {"dump_data", "_setup"} \cup (IF cls = "Forum" THEN {"User"} ELSE {})

\* The keys for which attribute access never reaches __getattr__.
Shadowed(h, e) == DOMAIN InstanceDict(h, e) \cup Properties(e.cls) \cup Methods(e.cls)

----------------------------------------------------------------------------
(* Lines 71-96: _ForumObjectBase.__getattr__.                              *)

\* Variants of __getattr__ the properties below are tried against: the alias
\* looked up before the data, no alias branch, and None for a missing key.
GetAttrHookAliasFirst(b, h, i, key) ==
    IF key \in DOMAIN h[i].aliases /\ h[i].aliases[key] \in DOMAIN DataOf(h, h[i])
    THEN [Coerce(b, DataOf(h, h[i])[h[i].aliases[key]]) EXCEPT !.hops = 1]
    ELSE IF key \in DOMAIN DataOf(h, h[i]) THEN Coerce(b, DataOf(h, h[i])[key])
    ELSE Raise("AttributeError", <<h[i].cls, key>>)

GetAttrHookNoAlias(b, h, i, key) ==
    IF key \in DOMAIN DataOf(h, h[i]) THEN Coerce(b, DataOf(h, h[i])[key])
    ELSE Raise("AttributeError", <<h[i].cls, key>>)

GetAttrHookDefaultNone(b, h, i, key) ==
    IF key \in DOMAIN DataOf(h, h[i]) THEN Coerce(b, DataOf(h, h[i])[key])
    ELSE IF key \in DOMAIN h[i].aliases /\ h[i].aliases[key] \in DOMAIN DataOf(h, h[i])
    THEN [Coerce(b, DataOf(h, h[i])[h[i].aliases[key]]) EXCEPT !.hops = 1]
    ELSE Return(None)

RECURSIVE GetAttrHook(_, _, _, _)
GetAttrHook(b, h, i, key) ==
    LET e == h[i]
        d == DataOf(h, e)
    IN  IF key \in DOMAIN d THEN Coerce(b, d[key])
        ELSE IF key \in DOMAIN e.aliases
        THEN [GetAttrHook(b, h, i, e.aliases[key]) EXCEPT !.hops = @ + 1]
        ELSE Raise("AttributeError", <<e.cls, key>>)

\* obj.key for a key that is no property: the instance's attributes, then
\* the class's methods, and __getattr__ when both miss.
GetAttribute(b, h, i, key) ==
    LET e == h[i]
    IN  IF key \in DOMAIN InstanceDict(h, e) THEN Return(InstanceDict(h, e)[key])
        ELSE IF key \in Methods(e.cls) THEN Return(MethodV(key))
        ELSE GetAttrHook(b, h, i, key)

\* value[key] of a value attribute access returned.
Subscript(r, key) ==
    IF ~r.ok THEN r
    ELSE IF r.val.t # "obj" THEN Raise("TypeError", <<>>)
    ELSE IF key \notin DOMAIN r.val.m THEN Raise("KeyError", <<key>>)
    ELSE Return(r.val.m[key])
----------------------------------------------------------------------------
(* The servers: what each address answers for the length of a run.         *)

MaxTopics == 2     \* the longest topics array a front page holds
MaxHeap   == 5     \* entities constructed in one run
MaxNet    == 6     \* requests issued in one run
MaxForums == 1     \* calls of Forum(url) in one run

Alice   == <<"a", "l", "i", "c", "e">>
Bob     == <<"b", "o", "b">>
Stamp   == <<"1", "6", "0", "9", "4", "5", "9", "2", "0", "0", "1", "2", "3">>
IsoDate == <<"2", "0", "2", "1", "-", "0", "1", "-", "0", "1", "T", "0", "0", ":", "0", "0", ":", "0", "0", ".", "5", "Z">>
Sup2s   == [i \in 1..TimestampLen |-> "sup2"]

\* The names callers ask Forum.User for.
Usernames == {StrV(Alice)}

\* api/user/<username>: the server spells bob's name its own way.
UserDoc(username) ==
    IF username = StrV(Alice)
    THEN ("username" :> StrV(Alice)) @@ ("joindate" :> IntV(Stamp))
             @@ ("picture" :> StrV(<<"p", ".", "p", "n", "g">>))
    ELSE ("username" :> StrV(<<"B", "o", "b">>)) @@ ("joindate" :> StrV(IsoDate))

TopicRecord(n) ==
    ObjV(("category" :> ObjV("name" :> StrV(<<"n", "e", "w", "s">>)))
         @@ ("user" :> ObjV("username" :> StrV(IF n % 2 = 1 THEN Alice ELSE Bob)))
         @@ ("title" :> StrV(<<"h", "e", "l", "l", "o">>))
         @@ ("timestamp" :> StrV(Stamp)))

Snapshot(n) ==
    ("topics" :> ArrV([i \in 1..n |-> TopicRecord(i)])) @@ ("k" :> StrV(<<"s", "n", "a", "p", "s", "h", "o", "t">>))

Home == StrV(<<"H", "o", "m", "e">>)

Site(headers, basedata, config) ==
    [headers |-> headers, basedata |-> basedata, config |-> config]

NodeBB == "X-Powered-By" :> "NodeBB"

\* What each address answers to HEAD, to api/ and to api/config.
Sites ==
    ("https://forum.example/" :>
        Site(NodeBB, Snapshot(MaxTopics),
             ("siteTitle" :> StrV(<<"E", "x", "a", "m", "p", "l", "e", " ", "F", "o", "r", "u", "m">>)) @@ ("k" :> StrV(<<"c", "o", "n", "f", "i", "g">>))))
    @@ ("https://small.example/" :>
        Site(NodeBB, ("title" :> Home) @@ ("siteTitle" :> StrV(<<"o", "l", "d">>)),
             "siteTitle" :> StrV(<<"S", "m", "a", "l", "l">>)))
    @@ ("https://odd.example/" :>
        Site(NodeBB, Snapshot(1), "siteTitle" :> StrV(Sup2s)))
    @@ ("https://broken.example/" :>
        Site(NodeBB, Snapshot(0), "k" :> StrV(<<"c", "o", "n", "f", "i", "g">>)))
    @@ ("https://blog.example/" :>
        Site("X-Powered-By" :> "Express", Snapshot(0), "siteTitle" :> Home))
    @@ ("https://plain.example/" :>
        Site(<<>>, Snapshot(0), "siteTitle" :> Home))

\* The attributes callers read.
Keys == {"title", "siteTitle", "k", "username", "joindate", "category", "timestamp",
         "doesNotExist"}

Builds == [py : {2, 3}, pil : BOOLEAN]

----------------------------------------------------------------------------
(* Construction.  A _setup yields the call's outcome, the heap it leaves   *)
(* and the requests it issued, in order.                                   *)

Request(m, u) == [method |-> m, url |-> u]
Done(out, h, reqs) == [out |-> out, heap |-> h, reqs |-> reqs]

Entity(cls, name, data, aliases, attrs) ==
    [cls |-> cls, name |-> name, data |-> data, aliases |-> aliases, attrs |-> attrs]

\* Lines 56-59: the object before its _setup runs.
NewObject(cls) == Entity(cls, StrV(<<"d", "a", "t", "a">>), OwnData(Empty), Empty, Empty)

\* A variant of attribute assignment that writes a key of the data into the
\* data, as __getattr__ reads it from there.
SetAttrInData(h, i, key, val) ==
    LET e == h[i]
    IN  IF key \in DOMAIN DataOf(h, e) /\ e.data.forum # 0
        THEN [h EXCEPT ![e.data.forum].data.map["topics"].q[e.data.idx].m =
                           Merge(@, key :> val)]
        ELSE [h EXCEPT ![i].attrs = Merge(@, key :> val)]

\* self.key = val writes the instance's own attributes (there is no
\* __setattr__): the data is left alone.
SetAttr(h, i, key, val) == [h EXCEPT ![i].attrs = Merge(@, key :> val)]

\* requests.head(url).headers.get(name): the header, or nothing.
HeaderGet(headers, name) == IF name \in DOMAIN headers THEN <<headers[name]>> ELSE <<>>

\* A variant of Forum._setup that fetches both documents before it looks at
\* the header.
ForumSetupFetchFirst(h, url, headers, basedata, config) ==
    LET endpoint == UrlJoin(url, <<"api/">>)
        cfurl    == UrlJoin(endpoint, <<"config">>)
        reqs     == <<Request("HEAD", url), Request("GET", endpoint), Request("GET", cfurl)>>
        attrs    == ("url" :> UrlV(url)) @@ ("endpoint" :> UrlV(endpoint))
                    @@ ("api_url" :> UrlV(endpoint)) @@ ("_req" :> ResponseV(endpoint))
                    @@ ("basedata" :> ObjV(basedata)) @@ ("cfurl" :> UrlV(cfurl))
                    @@ ("configreq" :> ResponseV(cfurl)) @@ ("config" :> ObjV(config))
    IN  IF HeaderGet(headers, "X-Powered-By") # <<"NodeBB">>
        THEN Done(Raise("ValueError", <<"That's not a NodeBB forum">>), h, reqs)
        ELSE IF "siteTitle" \notin DOMAIN config
        THEN Done(Raise("KeyError", <<"siteTitle">>), h, reqs)
        ELSE Done(Return(RefV(Len(h) + 1)),
                  Append(h, Entity("Forum", config["siteTitle"],
                                   OwnData(Merge(basedata, config)),
                                   "title" :> "siteTitle", attrs)),
                  reqs)

\* Lines 106-129: Forum._setup(url), the server answering HEAD with headers,
\* api/ with basedata and api/config with config.
ForumSetup(h, url, headers, basedata, config) ==
    LET i        == Len(h) + 1
        endpoint == UrlJoin(url, <<"api/">>)
        cfurl    == UrlJoin(endpoint, <<"config">>)
        head     == <<Request("HEAD", url)>>
        gets     == <<Request("GET", endpoint), Request("GET", cfurl)>>
        attrs    == ("url" :> UrlV(url)) @@ ("endpoint" :> UrlV(endpoint))
                    @@ ("api_url" :> UrlV(endpoint)) @@ ("_req" :> ResponseV(endpoint))
                    @@ ("basedata" :> ObjV(basedata)) @@ ("cfurl" :> UrlV(cfurl))
                    @@ ("configreq" :> ResponseV(cfurl)) @@ ("config" :> ObjV(config))
    IN  IF HeaderGet(headers, "X-Powered-By") # <<"NodeBB">>
        THEN Done(Raise("ValueError", <<"That's not a NodeBB forum">>), h, head)
        ELSE IF "siteTitle" \notin DOMAIN config
        THEN Done(Raise("KeyError", <<"siteTitle">>), h, head \o gets)
        ELSE Done(Return(RefV(i)),
                  Append(h, Entity("Forum", config["siteTitle"],
                                   OwnData(Merge(basedata, config)),
                                   "title" :> "siteTitle", attrs)),
                  head \o gets)

\* Lines 142-151: User._setup(forum, username) on the object at i, the
\* server answering with doc.
UserSetup(h, i, f, username, doc) ==
    IF username.t # "str" THEN Done(Raise("TypeError", <<>>), h, <<>>)
    ELSE LET api_url == UrlJoin(h[f].attrs["endpoint"].s, <<"user/">> \o username.s)
             attrs   == ("forum" :> RefV(f)) @@ ("username" :> username)
                        @@ ("api_url" :> UrlV(api_url)) @@ ("req" :> ResponseV(api_url))
         IN  Done(Return(RefV(i)),
                  [h EXCEPT ![i] = Entity("User", username, OwnData(doc), Empty, attrs)],
                  <<Request("GET", api_url)>>)

\* Lines 132-134: Forum.User(username).
ForumUser(h, f, username, doc) ==
    UserSetup(Append(h, NewObject("User")), Len(h) + 1, f, username, doc)

\* Line 170: self.user = forum.User(...), user being what the factory did.
TopicUser(h, i, user) ==
    IF ~user.out.ok THEN Done(user.out, h, user.reqs)
    ELSE Done(Return(RefV(i)), SetAttr(user.heap, i, "user", user.out.val), user.reqs)

\* Line 170: self.user["username"], who, is read and handed to Forum.User.
TopicAuthor(h, h2, i, f, who) ==
    IF ~who.ok THEN Done(who, h, <<>>)
    ELSE TopicUser(h, i, ForumUser(h2, f, who.val, UserDoc(who.val)))

\* Line 169: self.category = self.category["name"], name being the right
\* hand side; then line 170 on the heap that leaves.
TopicCategory(b, h, h1, i, f, name) ==
    IF ~name.ok THEN Done(name, h, <<>>)
    ELSE TopicAuthor(h, SetAttr(h1, i, "category", name.val), i, f,
                     Subscript(GetAttribute(b, SetAttr(h1, i, "category", name.val), i, "user"),
                               "username"))

\* Lines 167-168: self.forum and self.data are set on the new object, in h1.
TopicData(b, h, h1, i, f) ==
    TopicCategory(b, h, h1, i, f, Subscript(GetAttribute(b, h1, i, "category"), "name"))

\* Lines 166-170: Topic._setup(data, forum), data being record idx of forum f.
TopicSetup(b, h, f, idx) ==
    TopicData(b, h, Append(h, [NewObject("Topic") EXCEPT !.data = SharedData(f, idx),
                                                         !.attrs = "forum" :> RefV(f)]),
              Len(h) + 1, f)

RECURSIVE TopicsFrom(_, _, _, _, _, _)
\* One step of the list comprehension of line 138: t is what constructing
\* the topic of record idx did.
TopicsNext(b, f, idx, made, reqs, h, t) ==
    IF ~t.out.ok THEN Done(t.out, h, reqs \o t.reqs)
    ELSE TopicsFrom(b, t.heap, f, idx + 1, Append(made, t.out.val), reqs \o t.reqs)

\* The list comprehension of line 138 from record idx on: made holds the
\* topics already built and reqs the requests already issued.
TopicsFrom(b, h, f, idx, made, reqs) ==
    IF idx > Len(h[f].data.map["topics"].q) THEN Done(Return(ListV(made)), h, reqs)
    ELSE TopicsNext(b, f, idx, made, reqs, h, TopicSetup(b, h, f, idx))

\* Objects of an access that raises are referenced by nothing: dropped.
Kept(h, r) == IF r.out.ok THEN r ELSE Done(r.out, h, r.reqs)

\* A variant of Forum.topics that keeps the topics of its first access.
ForumTopicsMemoized(b, h, f) ==
    IF \E i \in 1..Len(h) : h[i].cls = "Topic" /\ h[i].data.forum = f
    THEN Done(Return(ListV([n \in 1..Len(h[f].data.map["topics"].q) |->
                  RefV(CHOOSE i \in 1..Len(h) : /\ h[i].cls = "Topic"
                                                 /\ h[i].data.forum = f
                                                 /\ h[i].data.idx = n)])),
              h, <<>>)
    ELSE IF "topics" \notin DOMAIN h[f].data.map
    THEN Done(Raise("KeyError", <<"topics">>), h, <<>>)
    ELSE Kept(h, TopicsFrom(b, h, f, 1, <<>>, <<>>))

\* Lines 136-138: the property Forum.topics.
ForumTopics(b, h, f) ==
    IF "topics" \notin DOMAIN h[f].data.map THEN Done(Raise("KeyError", <<"topics">>), h, <<>>)
    ELSE IF h[f].data.map["topics"].t # "arr" THEN Done(Raise("TypeError", <<>>), h, <<>>)
    ELSE Kept(h, TopicsFrom(b, h, f, 1, <<>>, <<>>))

\* Lines 156-162: imgurl is joined from the picture and fetched if PIL is there.
ImageOf(b, h, u, picture) ==
    IF ~picture.ok THEN Done(picture, h, <<>>)
    ELSE IF picture.val.t # "str" THEN Done(Raise("TypeError", <<>>), h, <<>>)
    ELSE IF ~b.pil
    THEN Done(Return(UrlV(UrlJoin(h[h[u].attrs["forum"].n[1]].attrs["endpoint"].s, picture.val.s))),
              h, <<>>)
    ELSE Done(Return(ImageV(UrlJoin(h[h[u].attrs["forum"].n[1]].attrs["endpoint"].s, picture.val.s))),
              h, <<Request("GET", UrlJoin(h[h[u].attrs["forum"].n[1]].attrs["endpoint"].s,
                                          picture.val.s))>>)

\* Lines 153-162: the property User.image.
UserImage(b, h, u) == ImageOf(b, h, u, GetAttribute(b, h, u, "picture"))

File(path, text) == [path |-> path, text |-> text]

\* Lines 65-69: dump_data(path="."): the outcome and the file written, the
\* data as a JSON object.
DumpData(h, i) ==
    IF h[i].name.t # "str" THEN [out |-> Raise("TypeError", <<>>), wrote |-> <<>>]
    ELSE [out |-> Return(None),
          wrote |-> <<File(<<"./">> \o h[i].name.s \o <<".json">>, DataOf(h, h[i]))>>]

----------------------------------------------------------------------------
(* The library in use: a caller constructs a forum and works with it.      *)

Forums == {i \in 1..Len(heap) : heap[i].cls = "Forum"}
Users  == {i \in 1..Len(heap) : heap[i].cls = "User"}

\* A call: the entity it is made on, the name involved, the value given,
\* and what it did.
Called(op, target, key, given, out, reqs, wrote) ==
    [op |-> op, target |-> target, key |-> key, given |-> given, out |-> out,
     reqs |-> reqs, wrote |-> wrote]

Init ==
    /\ build \in Builds
    /\ heap = <<>>
    /\ net = <<>>
    /\ last = Called("none", 0, "", None, Return(None), <<>>, <<>>)

\* A call that constructs or fetches: r is what it did.
Effect(op, target, key, given, r) ==
    /\ Len(r.heap) <= MaxHeap
    /\ Len(net) + Len(r.reqs) <= MaxNet
    /\ heap' = r.heap
    /\ net' = net \o r.reqs
    /\ last' = Called(op, target, key, given, r.out, r.reqs, <<>>)
    /\ UNCHANGED build

\* Forum(url)
NewForum ==
    /\ Cardinality({i \in 1..Len(net) : net[i].method = "HEAD"}) < MaxForums
    /\ \E address \in DOMAIN Sites :
          Effect("Forum", 0, address, None,
                 ForumSetup(heap, <<address>>, Sites[address].headers,
                            Sites[address].basedata, Sites[address].config))

\* forum.User(username)
NewUser ==
    \E f \in Forums, username \in Usernames :
        Effect("User", f, "User", username, ForumUser(heap, f, username, UserDoc(username)))

\* forum.topics
Topics ==
    \E f \in Forums : Effect("topics", f, "topics", None, ForumTopics(build, heap, f))

\* user.image
Image ==
    \E u \in Users : Effect("image", u, "image", None, UserImage(build, heap, u))

\* entity.key, for a key that is no property of the entity's class
Access ==
    \E i \in 1..Len(heap) :
        \E key \in Keys \ Properties(heap[i].cls) :
            /\ last' = Called("getattr", i, key, None, GetAttribute(build, heap, i, key),
                             <<>>, <<>>)
            /\ UNCHANGED <<build, heap, net>>

\* entity.dump_data()
Dump ==
    \E i \in 1..Len(heap) :
        /\ last' = Called("dump_data", i, "dump_data", None, DumpData(heap, i).out, <<>>,
                          DumpData(heap, i).wrote)
        /\ UNCHANGED <<build, heap, net>>

Next == NewForum \/ NewUser \/ Topics \/ Image \/ Access \/ Dump

Spec == Init /\ [][Next]_vars
----------------------------------------------------------------------------
(* Properties of the library in use.                                       *)

Target   == heap[last.target]
Read     == last.op = "getattr"
Stored   == DataOf(heap, Target)

\* C1, as stated: for every key of an entity's data, attribute access returns
\* the converted stored value, the alias table not consulted, the only
\* exceptions being a Topic's category and user.
C1_AccessReturnsStoredButTopic ==
    (/\ last.op \in {"getattr", "topics", "image"}
     /\ last.key \in DOMAIN Stored
     /\ ~(Target.cls = "Topic" /\ last.key \in {"category", "user"}))
    => last.out = Coerce(build, Stored[last.key])

\* C1, as amended: for every key of an entity's data that no attribute of the
\* instance and no member of its class shadows, attribute access returns the
\* converted stored value, and no alias is followed even when the key is a
\* declared alias.
C1_AccessReturnsStored ==
    (Read /\ last.key \in DOMAIN Stored /\ last.key \notin Shadowed(heap, Target))
    => last.out = Coerce(build, Stored[last.key])

\* A forum whose front page has a title of its own is asked for its title.
C1_Witness ==
    /\ Read /\ Target.cls = "Forum" /\ last.key = "title"
    /\ "title" \in DOMAIN Target.aliases /\ "title" \in DOMAIN Stored
    /\ last.out = Return(Home)
    /\ Stored["siteTitle"] # Home

\* C2: on an entity with the alias title -> siteTitle whose data holds
\* siteTitle and no title, reading title gives what reading siteTitle gives,
\* the converted stored siteTitle, after one alias.
C2_AliasRoundTrip ==
    (/\ Read /\ last.key = "title"
     /\ "title" \in DOMAIN Target.aliases /\ Target.aliases["title"] = "siteTitle"
     /\ "siteTitle" \in DOMAIN Stored /\ "title" \notin DOMAIN Stored)
    => /\ last.out.hops = 1
       /\ [last.out EXCEPT !.hops = 0] = GetAttribute(build, heap, last.target, "siteTitle")
       /\ [last.out EXCEPT !.hops = 0] = Coerce(build, Stored["siteTitle"])

C2_Witness ==
    /\ Read /\ last.key = "title" /\ "title" \notin DOMAIN Stored
    /\ last.out.ok /\ last.out.val = StrV(<<"E", "x", "a", "m", "p", "l", "e", " ", "F", "o", "r", "u", "m">>)
    /\ last.out.val = Stored["siteTitle"]

\* C3: a key that is neither in the data nor an alias makes __getattr__ raise
\* AttributeError naming the class and the key; nothing is returned.
\* (__getattr__ runs for the names normal lookup does not find.)
C3_UnknownKeyRaises ==
    (/\ Read /\ last.key \notin Shadowed(heap, Target)
     /\ last.key \notin DOMAIN Stored /\ last.key \notin DOMAIN Target.aliases)
    => last.out = Raise("AttributeError", <<Target.cls, last.key>>)

C3_Witness ==
    /\ Read /\ Target.cls = "User" /\ last.key = "doesNotExist"
    /\ ~last.out.ok /\ last.out.arg = <<"User", "doesNotExist">>

\* C4: Forum(url) issues the HEAD request first, and when the answer's
\* X-Powered-By is absent or is not "NodeBB" it raises after that one
\* request: no GET is issued and no forum is built.
C4_HeadThenStop ==
    last.op = "Forum"
    => /\ Len(last.reqs) >= 1
       /\ last.reqs[1] = Request("HEAD", <<last.key>>)
       /\ \A i \in 2..Len(last.reqs) : last.reqs[i].method = "GET"
       /\ HeaderGet(Sites[last.key].headers, "X-Powered-By") # <<"NodeBB">>
          => /\ ~last.out.ok /\ last.out.err = "ValueError"
             /\ last.reqs = <<Request("HEAD", <<last.key>>)>>
             /\ Len(net) >= 1 /\ net[Len(net)] = Request("HEAD", <<last.key>>)
             /\ \A f \in Forums : heap[f].attrs["url"] # UrlV(<<last.key>>)

C4_Witness ==
    /\ last.op = "Forum" /\ last.key = "https://plain.example/"
    /\ "X-Powered-By" \notin DOMAIN Sites[last.key].headers
    /\ last.out.err = "ValueError"

\* What the servers answered the forum at f.
Answered(f) == Sites[heap[f].attrs["url"].s[1]]

\* C5: a forum's data is the union of the front page and the configuration,
\* and a key of both has the configuration's value, which is also what
\* reading the key gives.
C5_ConfigWins ==
    /\ \A f \in Forums :
          /\ DOMAIN heap[f].data.map
                = DOMAIN Answered(f).basedata \cup DOMAIN Answered(f).config
          /\ \A k \in DOMAIN Answered(f).config :
                heap[f].data.map[k] = Answered(f).config[k]
          /\ \A k \in DOMAIN Answered(f).basedata \ DOMAIN Answered(f).config :
                heap[f].data.map[k] = Answered(f).basedata[k]
    /\ (/\ Read /\ Target.cls = "Forum"
        /\ last.key \in DOMAIN Answered(last.target).config
        /\ last.key \notin Shadowed(heap, Target))
       => last.out = Coerce(build, Answered(last.target).config[last.key])

C5_Witness ==
    /\ Read /\ Target.cls = "Forum" /\ last.key = "k"
    /\ "k" \in DOMAIN Answered(last.target).basedata
    /\ "k" \in DOMAIN Answered(last.target).config
    /\ Answered(last.target).basedata["k"] # Answered(last.target).config["k"]
    /\ last.out = Return(StrV(<<"c", "o", "n", "f", "i", "g">>))

\* The request for the user of record n of the forum at f.
UserRequest(f, n) ==
    Request("GET", heap[f].attrs["endpoint"].s \o <<"user/">>
                   \o heap[f].data.map["topics"].q[n].m["user"].m["username"].s)

\* C8: every access to Forum.topics builds one new Topic for each record of
\* the front page's topics, and each of them fetches its user through
\* Forum.User with the record's username: an access to n records issues n
\* requests and reuses nothing, however often it is repeated.
C8_TopicsBuiltAfresh ==
    [][(last'.op = "topics" /\ last'.out.ok)
       => LET f == last'.target
              n == Len(heap[f].data.map["topics"].q)
          IN  /\ Len(heap') = Len(heap) + 2 * n
              /\ last'.out.val = ListV([i \in 1..n |-> RefV(Len(heap) + 2 * i - 1)])
              /\ \A i \in 1..n :
                    /\ heap'[Len(heap) + 2 * i - 1].cls = "Topic"
                    /\ heap'[Len(heap) + 2 * i - 1].data = SharedData(f, i)
                    /\ heap'[Len(heap) + 2 * i - 1].attrs["user"] = RefV(Len(heap) + 2 * i)
                    /\ heap'[Len(heap) + 2 * i].cls = "User"
              /\ last'.reqs = [i \in 1..n |-> UserRequest(f, i)]
              /\ net' = net \o last'.reqs]_vars

\* A second access: the forum already has a topic that is not among those
\* the access returned.
C8_Witness ==
    /\ last.op = "topics" /\ last.out.ok
    /\ Len(last.out.val.q) >= 1
    /\ Len(last.reqs) = Len(last.out.val.q)
    /\ \E i \in 1..Len(heap) :
          /\ heap[i].cls = "Topic" /\ heap[i].data.forum = last.target
          /\ \A j \in 1..Len(last.out.val.q) : last.out.val.q[j] # RefV(i)

\* C9: no call changes the data or the aliases of an entity that exists, and
\* none removes an entity; the records of a forum's topics stay as they are
\* when topics are built from them.
C9_EntitiesNeverChange ==
    [][\A i \in 1..Len(heap) :
          /\ i <= Len(heap')
          /\ heap'[i].cls = heap[i].cls
          /\ heap'[i].data = heap[i].data
          /\ DataOf(heap', heap'[i]) = DataOf(heap, heap[i])
          /\ heap'[i].aliases = heap[i].aliases]_vars

\* Topics were built: a topic's category is the name, and the record it was
\* built from still holds the category object.
C9_Witness ==
    /\ last.op = "topics" /\ last.out.ok
    /\ \E i \in 1..Len(heap) :
          /\ heap[i].cls = "Topic"
          /\ heap[i].attrs["category"].t = "str"
          /\ DataOf(heap, heap[i])["category"].t = "obj"
          /\ heap[heap[i].data.forum].data.map["topics"].q[heap[i].data.idx].m["category"].t
                = "obj"

\* C10: reading an attribute follows at most one alias, and reading title on
\* a forum always returns a value.
C10_TitleAlwaysResolves ==
    Read => /\ last.out.hops <= 1
            /\ (Target.cls = "Forum" /\ last.key = "title") => last.out.ok

----------------------------------------------------------------------------
(* The conversion on its own: a stored value is converted, and what comes  *)
(* back is converted again.                                                *)

MaxApply == 2      \* conversions applied in a row

Values == {
    StrV(Stamp),
    StrV(<<"1", "6", "0", "9", "4", "5", "9", "2", "0", "0", "0", "0", "0">>),
    StrV(<<"0", "0", "0", "0", "0", "0", "0", "0", "0", "0", "1", "2", "3">>),
    StrV(<<"8", "5", "8", "9", "9", "3", "4", "5", "9", "1", "9", "9", "9">>),
    StrV(<<"8", "5", "8", "9", "9", "3", "4", "5", "9", "2", "0", "0", "1">>),
    StrV(<<"9", "9", "9", "9", "9", "9", "9", "9", "9", "9", "9", "9", "9">>),
    StrV(<<"1", "6", "0", "9", "4", "5", "9", "2", "0", "0", "1", "2">>),
    StrV(<<"1", "6", "0", "9", "4", "5", "9", "2", "0", "0", "1", "2", "3", "4">>),
    StrV(<<"1", "6", "0", "9", "4", "5", "9", "2", "0", "0", "1", "2", "a">>),
    StrV(Sup2s),
    StrV(<<"1", "6", "0", "9", "4", "5", "9", "2", "0", "0", "1", "2", "sup2">>),
    StrV(<<"C", "a", "f", "eacute">>),
    StrV(IsoDate),
    StrV(<<"2", "0", "2", "1", "-", "0", "1", "-", "0", "1", "T", "0", "0", ":", "0", "0", ":", "0", "0", ".", "0", "0", "0", "0", "0", "0", "Z">>),
    StrV(<<"2", "0", "2", "1", "-", "0", "1", "-", "0", "1", "T", "0", "0", ":", "0", "0", ":", "0", "0", "Z">>),
    StrV(<<"2", "0", "2", "1", "-", "0", "2", "-", "3", "0", "T", "0", "0", ":", "0", "0", ":", "0", "0", ".", "0", "Z">>),
    StrV(<<"2", "0", "2", "0", "-", "2", "-", "2", "9", "t", "2", "3", ":", "5", "9", ":", "5", "9", ".", "2", "5", "z">>),
    StrV(<<"h", "e", "l", "l", "o">>),
    StrV(<<>>),
    IntV(Stamp),
    IntV(<<"4", "2">>),
    BoolV(TRUE),
    None,
    ObjV("name" :> StrV(<<"n", "e", "w", "s">>)),
    ArrV(<<StrV(Stamp)>>) }

ValueInit ==
    /\ build \in Builds
    /\ heap = <<>>
    /\ net = <<>>
    /\ \E v \in Values : last = Called("value", 0, "", None, Return(v), <<>>, <<>>)

\* The value in hand is converted: the stored value first, then what each
\* conversion returned.
Convert ==
    /\ last.out.ok
    /\ last.target < MaxApply
    /\ last' = Called("coerce", last.target + 1, "", last.out.val,
                      Coerce(build, last.out.val), <<>>, <<>>)
    /\ UNCHANGED <<build, heap, net>>

ValueSpec == ValueInit /\ [][Convert]_vars
----------------------------------------------------------------------------
(* Properties of the conversion.                                           *)

\* C6: the conversion of any value returns a value, and converting what it
\* returned returns the same again.
C6_TotalAndIdempotent ==
    last.op = "coerce"
    => /\ last.out.ok
       /\ last.target >= 2 => last.out.val = last.given

\* C7: a string of 13 decimal digits converts to the time that many
\* milliseconds after the epoch, before any other rule is tried.
C7_TimestampExact ==
    (/\ last.op = "coerce" /\ last.given.t = "str"
     /\ Len(last.given.s) = TimestampLen /\ AllDecimal(last.given.s))
    => last.out = Return(DatetimeAt(
                     SubSeq(last.given.s, 1, TimestampLen - MillisDigits),
                     1000 * Number(SubSeq(last.given.s, TimestampLen - MillisDigits + 1,
                                          TimestampLen))))
====
